---- MODULE Spec2Model ----
(***************************************************************************)
(* Model of the HLS download engine of m3u8me (src/m3u8me.py):             *)
(*   - StreamDownloader.run, the job thread (lines 782-952);               *)
(*   - the main window's queue of downloads and its Stop/Cancel handlers   *)
(*     (M3U8StreamDownloader, lines 2123-2465);                            *)
(*   - StreamDownloader.download_segment, called concurrently for the      *)
(*     segments of one job (lines 559-635).                                *)
(***************************************************************************)
EXTENDS Integers, Sequences, FiniteSets, TLC

\* ---------------------------------------------------------------- bounds
MaxSegs == 3        \* longest media manifest explored
MaxVariants == 2    \* longest master manifest explored
MaxRetry == 3       \* largest 'Retry Attempts' setting explored
MaxCalls == 2       \* most concurrent download_segment calls explored
MaxChunks == 2      \* most chunks in one response body
MaxAttempts == 2    \* largest retry_count explored for download_segment
MaxDepth == 2       \* deepest directory of a manifest URL
MaxLines == 2       \* most 'frame=' lines of ffmpeg reported by combine_segments
MaxClock == 2       \* last second of the wall clock explored

\* ---------------------------------------------------------------- inputs
Heights == {720, 1080, 2160}
Bandwidths == {1000, 2000}
Qualities == {"best", "medium", "worst"}
UriStyles == {"abs", "rel"}     \* "http..." URI or a relative one

\* One EXT-X-STREAM-INF entry: stream_info.resolution is None when res is
\* FALSE (height is then meaningless), stream_info.bandwidth otherwise.
Variants ==
    {[res |-> FALSE, height |-> 0, bandwidth |-> b] : b \in Bandwidths}
    \cup {[res |-> TRUE, height |-> h, bandwidth |-> b] :
             h \in Heights, b \in Bandwidths}

RECURSIVE SeqsUpTo(_, _)
SeqsUpTo(S, n) ==
    IF n = 0 THEN {<<>>}
    ELSE LET shorter == SeqsUpTo(S, n - 1)
         IN  shorter \cup {Append(s, x) : s \in {t \in shorter : Len(t) = n - 1}, x \in S}

\* What m3u8.loads makes of a text: a list of segments (their number and the
\* style of their URIs) and a list of variant playlists (and their URI style).
EmptyPlaylist == [segments |-> 0, segStyle |-> "abs", playlists |-> <<>>, uriStyle |-> "abs"]

MediaPlaylists ==
    {[segments |-> n, segStyle |-> st, playlists |-> <<>>, uriStyle |-> "abs"] :
        n \in 1..MaxSegs, st \in UriStyles}

MasterPlaylists ==
    {[segments |-> 0, segStyle |-> "abs", playlists |-> vs, uriStyle |-> st] :
        vs \in SeqsUpTo(Variants, MaxVariants) \ {<<>>}, st \in UriStyles}

\* The job source self.url: literal manifest text (media or master), text
\* that m3u8.loads rejects, or a URL (which m3u8.loads parses as a manifest
\* with no segment and no variant).
Sources ==
    {[kind |-> "media", playlist |-> p] : p \in MediaPlaylists}
    \cup {[kind |-> "master", playlist |-> p] : p \in MasterPlaylists}
    \cup {[kind |-> k, playlist |-> EmptyPlaylist] : k \in {"url", "bad"}}

\* The 'Retry Attempts' spin box (lines 1012-1017) starts at 0; its default,
\* and the default of settings.get('retry_attempts', 3), is 3.
DefaultRetry == 3
RetrySettings == 0..MaxRetry

\* The network, for the segment requests of one job: the requests for segment
\* seg fail count times in a row and succeed from then on; all other segment
\* requests succeed. A failure is of kind "connect" (no connection: the
\* transport adapter may try again) or "status" (an HTTP error response,
\* which raise_for_status turns into an exception).
NoFault == [seg |-> -1, kind |-> "none", count |-> 0]

\* More failures than any job ever asks for: the segment always fails.
Always == MaxRetry + 2

Faults ==
    {NoFault}
    \cup {[seg |-> n, kind |-> k, count |-> c] :
             n \in 0..(MaxSegs - 1), k \in {"connect", "status"}, c \in 1..Always}

\* The faults in which a segment answers with an HTTP error every time.
SimpleFaults == {f \in Faults : f = NoFault \/ (f.kind = "status" /\ f.count = Always)}

\* The sources on which the retry settings and all faults are explored: the
\* literal media manifests with absolute URIs and one master manifest with a
\* single 1080p variant.
RetrySources ==
    {s \in Sources : s.kind = "media" /\ s.playlist.segStyle = "abs"}
    \cup {[kind |-> "master",
           playlist |-> [segments |-> 0, segStyle |-> "abs",
                         playlists |-> <<[res |-> TRUE, height |-> 1080, bandwidth |-> 1000]>>,
                         uriStyle |-> "abs"]]}

\* HTTPAdapter(max_retries=self.retry_count) (lines 546-553) and
\* raise_for_status: what one session.get for segment n comes to. A refused
\* connection is tried again up to max_retries times by the adapter; an HTTP
\* error response is returned at once, and raise_for_status raises.
SessionGet(n, f, retries) ==
    IF f.seg # n \/ f.kind = "none" THEN [ok |-> TRUE, tries |-> 1]
    ELSE IF f.kind = "status" THEN [ok |-> FALSE, tries |-> 1]
    ELSE IF f.count <= retries THEN [ok |-> TRUE, tries |-> f.count + 1]
    ELSE [ok |-> FALSE, tries |-> retries + 1]

\* ------------------------------------------------- variant selection (run)
NoStream == [res |-> FALSE, height |-> 0, bandwidth |-> 0]

\* key=lambda x: (x['height'], x['bandwidth'])
KeyGT(a, b) ==
    \/ a.height > b.height
    \/ a.height = b.height /\ a.bandwidth > b.bandwidth

\* list.sort(key=..., reverse=True): descending and stable
RECURSIVE InsertDesc(_, _)
InsertDesc(x, s) ==
    IF s = <<>> THEN <<x>>
    ELSE IF KeyGT(x, Head(s)) THEN <<x>> \o s
    ELSE <<Head(s)>> \o InsertDesc(x, Tail(s))

RECURSIVE SortDesc(_)
SortDesc(s) ==
    IF s = <<>> THEN <<>>
    ELSE InsertDesc(s[Len(s)], SortDesc(SubSeq(s, 1, Len(s) - 1)))

\* The loop of lines 799-809: hasattr(p.stream_info, 'resolution') is always
\* true, so a variant whose resolution is None makes the tuple unpacking of
\* line 801 raise TypeError.
BuildRaises(playlists) == \E k \in 1..Len(playlists) : ~playlists[k].res

AvailableStreams(playlists) == SortDesc(playlists)

SelectStreamFirst(streams, quality) ==
    IF quality = "best" THEN streams[1]
    ELSE IF quality = "worst" THEN streams[Len(streams)]
    ELSE streams[(Len(streams) \div 2) + 1]

\* Lines 815-830; the result is NoStream when selected_stream stays None.
\* (available_streams is never empty here: playlist.playlists is not.)
SelectStream(streams, quality) ==
    IF quality = "best" THEN
        IF \E k \in 1..Len(streams) : streams[k].height = 1080
        THEN streams[CHOOSE k \in 1..Len(streams) :
                        /\ streams[k].height = 1080
                        /\ \A j \in 1..(k - 1) : streams[j].height # 1080]
        ELSE IF streams # <<>> THEN streams[1] ELSE NoStream
    ELSE IF quality = "worst" THEN streams[Len(streams)]
    ELSE streams[(Len(streams) \div 2) + 1]


\* ------------------------------------------------------------------ state
VARIABLES
    url,            \* self.url: the job source (an element of Sources)
    quality,        \* settings['quality']
    retry_count,    \* self.retry_count: settings['retry_attempts']
    faults,         \* the network: which segment's requests fail, how, how often
    pc,             \* where the job thread is in run
    is_running,     \* self.is_running, the cancellation flag
    temp_dir,       \* self.temp_dir: "None" or "tmpdir"
    disk,           \* the workspace on disk: [dir, files]
    playlist,       \* the local playlist of run
    selected_stream,\* the local selected_stream (NoStream while None)
    selected_url,   \* the local selected_url: "unbound", "abs" or "rel"
    i,              \* the index of the segment loop (line 863)
    segment_files,  \* the local segment_files: ordinals of the files, in list order
    progress,       \* the percentages given to progress_updated.emit, in order
    exc,            \* the exception on its way to the handler of line 944
    emitted,        \* the terminal signals emitted, in order
    ffmpeg,         \* the subprocess: "not_run", "running", "hung", "exit0", "exit1"
    output_file,    \* the file ffmpeg left in save_path: "none", "valid", "invalid"
    reqs,           \* history: ordinals given to session.get by the segment loop
    failedReq,      \* history: some segment request failed
    variantReqs,    \* history: number of variant playlist fetches
    cancelledAt,    \* history: where run was when the flag was cleared
    observed,       \* history: the checkpoint of line 864 saw the flag cleared
    attempts,       \* history: HTTP attempts on the wire for each entry of reqs
    \* --- the main window (M3U8StreamDownloader)
    active_downloads,   \* self.active_downloads, in insertion order
    workers,            \* the StreamDownloader threads, by URL
    concurrent,         \* the 'Download Streams Concurrently' check box
    stopRequested,      \* history: URLs of downloading jobs the user asked to stop
    alive,              \* the application process is running
    start_all_enabled,  \* the 'Start All' button can be clicked
    stop_all_enabled,   \* the 'Stop All' button can be clicked
    \* --- download_segment (one call per segment index, each in its thread)
    now,                \* datetime.now(), in whole seconds
    jobs,               \* the jobs of one caller, by URL: where each is in run,
                        \* its workspace, resolution and output path
    made,               \* the number of directories mkdtemp has made
    saved,              \* the files of the save directory: [path, by]
    seg_total,          \* the argument total: the number of segments
    refused,            \* the network: the server refuses every connection
    nchunks,            \* chunks in a full response body
    length_known,       \* the responses carry a content-length header
    url_parts,          \* self.url as urlparse sees it
    segment_uri,        \* the argument segment_url, as the caller gives it
    calls,              \* by index: the locals and position of the call
    paths,              \* by index: do temp_path and output_path exist
    completed_segments, \* self.completed_segments
    download_lock,      \* self.download_lock: the set of its holders (indexes)
    last_progress,      \* history: the latest percentage emitted, and under which lock
    decreased           \* history: some percentage was lower than the one before it

vars == <<url, quality, retry_count, faults, pc, is_running, temp_dir, disk, playlist, selected_stream,
          selected_url, i, segment_files, progress, exc, emitted, ffmpeg,
          output_file, reqs, failedReq, variantReqs, cancelledAt, observed,
          attempts, active_downloads, workers, concurrent, stopRequested, alive,
          start_all_enabled, stop_all_enabled, now, jobs, made, saved,
          seg_total, refused, nchunks, length_known, url_parts, segment_uri,
          calls, paths, completed_segments, download_lock, last_progress, decreased>>

inputVars == <<url, quality, retry_count, faults>>
localVars == <<playlist, selected_stream, selected_url, i, segment_files>>
histVars == <<reqs, failedReq, variantReqs, cancelledAt, observed, attempts>>
uiVars == <<active_downloads, workers, concurrent, stopRequested, alive,
           start_all_enabled, stop_all_enabled>>
\* the variables of run that download_segment does not touch
runVars == <<url, quality, faults, pc, temp_dir, disk, playlist, selected_stream,
             selected_url, i, segment_files, progress, exc, emitted, ffmpeg,
             output_file, reqs, failedReq, variantReqs, cancelledAt, observed,
             attempts>>
callerVars == <<now, jobs, made, saved>>
segInputs == <<seg_total, refused, nchunks, length_known, url_parts, segment_uri>>
segVars == <<segInputs, calls, paths, completed_segments, download_lock,
             last_progress, decreased>>
jobVars == <<url, quality, retry_count, faults, pc, is_running, temp_dir, disk, playlist, selected_stream,
             selected_url, i, segment_files, progress, exc, emitted, ffmpeg,
             output_file, reqs, failedReq, variantReqs, cancelledAt, observed,
             attempts>>

\* The URLs the user may put in the queue.
Urls == {"u1", "u2"}

\* A StreamDownloader thread as the main window sees it: state is "none" (not
\* created), "running", "sig_complete" / "sig_error" (run has emitted its
\* terminal signal, whose slot has not run yet) or "finished".
NoWorker == [state |-> "none", is_running |-> TRUE]

NotCancelled == [pc |-> "none", i |-> 0, nreqs |-> 0]

NoDisk == [dir |-> FALSE, files |-> {}]

\* The bytes of a workspace file are a sequence of segment ordinals: the
\* response to the request for segment n is <<n>>.
SegmentFile(n, data) == [name |-> "segment", n |-> n, data |-> data]
IntermediateFile(data) == [name |-> "intermediate", n |-> 0, data |-> data]

ReadSegment(d, n) ==
    (CHOOSE f \in d.files : f.name = "segment" /\ f.n = n).data

\* open(path, 'wb') + write: the file is created or truncated
WriteFile(d, f) ==
    [d EXCEPT !.files = {g \in @ : ~(g.name = f.name /\ g.n = f.n)} \cup {f}]

\* ------------------------------------------- inputs of download_segment
Schemes == {"http", "https"}
Hosts == {"h", "cdn"}
DirNames == {"a", "b"}

\* A URL or a URI reference, by its form: "abs" (scheme://netloc/path),
\* "schemerel" (//netloc/path), "pathabs" (/path) or "rel" (path). The path is
\* the sequence of its components.
Ref(form, scheme, netloc, path) ==
    [form |-> form, scheme |-> scheme, netloc |-> netloc, path |-> path]

ManifestUrls ==
    {Ref("abs", sc, "h", d \o <<"index.m3u8">>) :
        sc \in Schemes, d \in SeqsUpTo(DirNames, MaxDepth)}

SegmentPaths == {d \o <<"seg.ts">> : d \in SeqsUpTo(DirNames, 1)}

SegmentUris ==
    {Ref("abs", sc, h, pa) : sc \in Schemes, h \in Hosts, pa \in SegmentPaths}
    \cup {Ref("schemerel", "", h, pa) : h \in Hosts, pa \in SegmentPaths}
    \cup {Ref(f, "", "", pa) : f \in {"pathabs", "rel"}, pa \in SegmentPaths}

\* The last emission of a fetch worker: its value, the lock held by the
\* emitting worker, the workers that held download_lock at that moment, and
\* for a per-completion emission len(self.completed_segments) at that moment
\* (0 for a per-chunk emission, which does not read it).
NoProgress == [value |-> -1, lock |-> "none", holders |-> {}, completed |-> 0]

\* The locals of a call that has not started: attempt is the loop variable of
\* line 562, k counts the chunks read of the response, gets counts the
\* session.get calls, wire the HTTP attempts they made, file_size is the size
\* read at line 603 in the current attempt (-1 before that), progress is the
\* local of line 611 and ret is the value returned ("none" until the call
\* returns).
NewCall(uri) ==
    [pc |-> "try", attempt |-> 0, segment_url |-> uri, k |-> 0, gets |-> 0,
     wire |-> 0, file_size |-> -1, progress |-> 0, ret |-> "none"]

\* StreamDownloader.__init__ (lines 495-509) and the calls download_segment(
\* uri, path, index, total) for index in 0 .. total-1, with totals of T,
\* bodies of C chunks, retry settings R, manifest URLs M, segment URIs U and
\* servers N.
SegInit(T, C, R, M, U, N) ==
    /\ seg_total \in T
    /\ refused \in N
    /\ nchunks \in C
    /\ length_known \in BOOLEAN
    /\ retry_count \in R
    /\ url_parts \in M
    /\ segment_uri \in U
    /\ calls = [c \in 0..(seg_total - 1) |-> NewCall(segment_uri)]
    /\ paths = [c \in 0..(seg_total - 1) |-> [temp |-> FALSE, out |-> FALSE]]
    /\ completed_segments = {}
    /\ download_lock = {}
    /\ last_progress = NoProgress
    /\ decreased = FALSE

\* No call of download_segment is made.
SegIdle ==
    /\ seg_total = 0
    /\ refused = FALSE
    /\ nchunks = 1
    /\ length_known = FALSE
    /\ url_parts = Ref("abs", "http", "h", <<"index.m3u8">>)
    /\ segment_uri = Ref("abs", "http", "h", <<"seg.ts">>)
    /\ calls = <<>>
    /\ paths = <<>>
    /\ completed_segments = {}
    /\ download_lock = {}
    /\ last_progress = NoProgress
    /\ decreased = FALSE

\* StreamDownloader.__init__ (lines 495-509), for a source of S and a quality
\* setting of Q.
JobInit(S, Q, R, F) ==
    /\ url \in S
    /\ quality \in Q
    /\ retry_count \in R
    /\ faults \in F
    /\ pc = "start"
    /\ is_running = TRUE
    /\ temp_dir = "None"
    /\ disk = NoDisk
    /\ playlist = EmptyPlaylist
    /\ selected_stream = NoStream
    /\ selected_url = "unbound"
    /\ i = 0
    /\ segment_files = <<>>
    /\ progress = <<>>
    /\ exc = "none"
    /\ emitted = <<>>
    /\ ffmpeg = "not_run"
    /\ output_file = "none"
    /\ reqs = <<>>
    /\ failedReq = FALSE
    /\ variantReqs = 0
    /\ cancelledAt = NotCancelled
    /\ observed = FALSE
    /\ attempts = <<>>

\* M3U8StreamDownloader.__init__ (line 1952) and the default of the check box
\* (line 1020).
UIInit ==
    /\ active_downloads = <<>>
    /\ workers = [u \in Urls |-> NoWorker]
    /\ concurrent = FALSE
    /\ stopRequested = {}
    /\ alive = TRUE
    /\ start_all_enabled = FALSE
    /\ stop_all_enabled = FALSE

\* os.path.join(self.save_path, f"video_{timestamp}{quality_info}.
\* {output_format}"), with timestamp = strftime("%Y%m%d_%H%M%S") of a time in
\* whole seconds and quality_info = "_" + resolution; save_path and
\* output_format are those of the caller. A path is the pair of the parts
\* that vary.
OutputPath(seconds, resolution) == <<seconds, resolution>>

NoPath == <<>>

\* A job that has not been started.
NewJob == [pc |-> "idle", temp_dir |-> 0, resolution |-> 0,
           output_file |-> NoPath, wrote |-> {}]

\* The caller has created no job yet.
CallerIdle ==
    /\ now = 0
    /\ jobs = [u \in Urls |-> NewJob]
    /\ made = 0
    /\ saved = {}

\* A job on any source with the default settings and simple faults, or a job
\* on one of RetrySources with any retry setting and any fault.
Init ==
    /\ \/ JobInit(Sources, Qualities, {DefaultRetry}, SimpleFaults)
       \/ JobInit(RetrySources, {"best"}, RetrySettings, Faults)
    /\ UIInit
    /\ CallerIdle
    /\ SegIdle

\* raise Exception(msg) inside the try of line 783
Raise(msg) ==
    /\ pc' = "except"
    /\ exc' = msg

EnterLoopResolvesAgain(p) ==
    IF p.segments = 0 /\ p.playlists # <<>>
    THEN /\ pc' = "fetch_variant"
         /\ exc' = exc
    ELSE IF p.segments = 0
    THEN Raise("No segments found in playlist")
    ELSE /\ pc' = "seg_check"
         /\ exc' = exc

\* Line 856-861: the check that the playlist has segments, then the loop starts.
EnterLoop(p) ==
    IF p.segments = 0
    THEN Raise("No segments found in playlist")
    ELSE /\ pc' = "seg_check"
         /\ exc' = exc

\* Lines 784-842 (and 856 when the manifest is a media manifest): mkdtemp,
\* parse, and for a master manifest the choice of the variant.
RunStart ==
    /\ pc = "start"
    /\ temp_dir' = "tmpdir"
    /\ disk' = [dir |-> TRUE, files |-> {}]
    /\ UNCHANGED <<inputVars, uiVars, callerVars, segVars, is_running, i, segment_files, emitted, ffmpeg,
                   output_file, histVars>>
    /\ IF url.kind = "bad"
       THEN /\ Raise("Failed to parse M3U8")
            /\ UNCHANGED <<playlist, selected_stream, selected_url, progress>>
       ELSE /\ playlist' = url.playlist
            /\ IF url.playlist.segments = 0 /\ url.playlist.playlists # <<>>
               THEN IF BuildRaises(url.playlist.playlists)
                    THEN /\ Raise("TypeError")
                         /\ UNCHANGED <<selected_stream, selected_url, progress>>
                    ELSE LET s == SelectStream(
                                     AvailableStreams(url.playlist.playlists), quality)
                         IN  IF s = NoStream
                             THEN /\ Raise("No suitable quality stream found")
                                  /\ UNCHANGED <<selected_stream, selected_url, progress>>
                             ELSE /\ selected_stream' = s
                                  /\ selected_url' = url.playlist.uriStyle
                                  /\ progress' = Append(progress, 0)
                                  /\ pc' = "fetch_variant"
                                  /\ exc' = exc
               ELSE /\ EnterLoop(url.playlist)
                    /\ UNCHANGED <<selected_stream, selected_url, progress>>

\* Lines 844-857: the fetch of the selected variant. session.get raises
\* MissingSchema for a relative URL; an absolute one fails or answers with a
\* playlist text: a media manifest, a text without segments, or a master
\* manifest again (here the one of the source).
FetchVariant ==
    /\ pc = "fetch_variant"
    /\ variantReqs' = variantReqs + 1
    /\ UNCHANGED <<inputVars, uiVars, callerVars, segVars, is_running, temp_dir, disk, selected_stream,
                   selected_url, i, segment_files, progress, emitted, ffmpeg,
                   output_file, reqs, failedReq, cancelledAt, observed, attempts>>
    /\ \/ /\ Raise("Failed to fetch quality stream")
          /\ UNCHANGED playlist
       \/ /\ selected_url = "abs"
          /\ \E p \in MediaPlaylists \cup {EmptyPlaylist, url.playlist} :
                /\ playlist' = p
                /\ EnterLoop(p)

CancelledNever == FALSE

\* Line 864: if not self.is_running
Cancelled == ~is_running

\* Lines 863-865: the head of the segment loop and its cancellation checkpoint.
SegCheck ==
    /\ pc = "seg_check"
    /\ UNCHANGED <<inputVars, uiVars, callerVars, segVars, is_running, temp_dir, disk, localVars, progress,
                   emitted, ffmpeg, output_file, reqs, failedReq, variantReqs,
                   cancelledAt, attempts>>
    /\ IF i = playlist.segments
       THEN /\ pc' = "combine"
            /\ UNCHANGED <<exc, observed>>
       ELSE IF Cancelled
       THEN /\ Raise("Download cancelled by user")
            /\ observed' = TRUE
       ELSE /\ pc' = "seg_get"
            /\ UNCHANGED <<exc, observed>>

\* Lines 870-873: the URL given to session.get is absolute when the segment
\* URI is, or when it is joined to the directory of a bound selected_url.
SegmentUrlAbsolute ==
    \/ playlist.segStyle = "abs"
    \/ selected_url = "abs"

PrependPath(files, n) == <<n>> \o files

\* list.append
AppendPath(files, n) == Append(files, n)

\* Lines 888-893: the f-string reads the local resolution, which is bound
\* only by line 836.
ProgressRaises == selected_url = "unbound"

SegmentProgressNext(k, total) == ((k + 1) * 80) \div total

\* min(int((i / total_segments) * 80), 79)
SegmentProgress(k, total) ==
    LET p == (k * 80) \div total IN IF p < 79 THEN p ELSE 79

SegmentErrorSkipped ==
    /\ i' = i + 1
    /\ pc' = "seg_check"
    /\ exc' = exc
    /\ UNCHANGED <<disk, segment_files, progress>>

\* Lines 895-896: a failed request ends the loop with an exception.
SegmentError ==
    /\ Raise("Failed to download segment")
    /\ UNCHANGED <<disk, i, segment_files, progress>>

\* Lines 867-896: one segment request and what follows it.
SegGet ==
    /\ pc = "seg_get"
    /\ reqs' = Append(reqs, i)
    /\ UNCHANGED <<inputVars, uiVars, callerVars, segVars, is_running, temp_dir, playlist, selected_stream,
                   selected_url, emitted, ffmpeg, output_file, variantReqs,
                   cancelledAt, observed>>
    /\ IF ~SegmentUrlAbsolute
       THEN \* requests raises MissingSchema before anything is sent
            /\ attempts' = Append(attempts, 0)
            /\ failedReq' = TRUE
            /\ SegmentError
       ELSE LET r == SessionGet(i, faults, retry_count)
            IN  /\ attempts' = Append(attempts, r.tries)
                /\ IF ~r.ok
                   THEN /\ failedReq' = TRUE
                        /\ SegmentError
                   ELSE /\ failedReq' = failedReq
                        /\ disk' = WriteFile(disk, SegmentFile(i, <<i>>))
                        /\ segment_files' = AppendPath(segment_files, i)
                        /\ IF ProgressRaises
                           THEN /\ Raise("Failed to download segment")
                                /\ UNCHANGED <<i, progress>>
                           ELSE /\ progress' = Append(progress,
                                                SegmentProgress(i, playlist.segments))
                                /\ i' = i + 1
                                /\ pc' = "seg_check"
                                /\ exc' = exc

RECURSIVE Concat(_, _)
\* Lines 902-905: the segment files are read in list order and written one
\* after the other.
Concat(d, files) ==
    IF files = <<>> THEN <<>>
    ELSE ReadSegment(d, Head(files)) \o Concat(d, Tail(files))

\* Line 899: the segment loop is over; 80 is emitted.
EmitCombining ==
    /\ pc = "combine"
    /\ progress' = Append(progress, 80)
    /\ pc' = "concat"
    /\ UNCHANGED <<inputVars, uiVars, callerVars, segVars, is_running, temp_dir, disk, localVars, exc,
                   emitted, ffmpeg, output_file, histVars>>

\* Lines 900-932: the intermediate file is written, 90 is emitted and ffmpeg
\* is started (subprocess.run blocks until it exits).
Combine ==
    /\ pc = "concat"
    /\ disk' = WriteFile(disk, IntermediateFile(Concat(disk, segment_files)))
    /\ progress' = Append(progress, 90)
    /\ ffmpeg' = "running"
    /\ pc' = "ffmpeg"
    /\ UNCHANGED <<inputVars, uiVars, callerVars, segVars, is_running, temp_dir, localVars, exc, emitted,
                   output_file, histVars>>

\* Lines 927-942: ffmpeg exits; the return code and the output file are
\* checked, then 100 and download_complete are emitted.
FfmpegExit ==
    /\ pc = "ffmpeg"
    /\ ffmpeg = "running"
    /\ UNCHANGED <<inputVars, uiVars, callerVars, segVars, is_running, temp_dir, disk, localVars, histVars>>
    /\ \E rc \in {0, 1}, out \in {"none", "valid", "invalid"} :
          /\ ffmpeg' = IF rc = 0 THEN "exit0" ELSE "exit1"
          /\ output_file' = out
          /\ IF rc # 0
             THEN /\ Raise("Failed to convert video")
                  /\ UNCHANGED <<progress, emitted>>
             ELSE IF out # "valid"
             THEN /\ Raise("Output file is invalid")
                  /\ UNCHANGED <<progress, emitted>>
             ELSE /\ progress' = Append(progress, 100)
                  /\ emitted' = Append(emitted, "download_complete")
                  /\ pc' = "finally"
                  /\ exc' = exc

\* The subprocess neither exits nor writes anything from now on.
\* subprocess.run (lines 927-932) is given no timeout.
FfmpegHangs ==
    /\ pc = "ffmpeg"
    /\ ffmpeg = "running"
    /\ ffmpeg' = "hung"
    /\ UNCHANGED <<inputVars, uiVars, callerVars, segVars, pc, is_running, temp_dir, disk, localVars,
                   progress, exc, emitted, output_file, histVars>>

EmitErrorDropped == emitted' = emitted

\* Line 946: self.download_error.emit(self.url, str(e))
EmitError == emitted' = Append(emitted, "download_error")

\* Lines 944-946: the handler of every exception of run.
Except ==
    /\ pc = "except"
    /\ EmitError
    /\ pc' = "finally"
    /\ UNCHANGED <<inputVars, uiVars, callerVars, segVars, is_running, temp_dir, disk, localVars, progress, exc,
                   ffmpeg, output_file, histVars>>

RmTreeKeeps(d) == d

\* shutil.rmtree(self.temp_dir, ignore_errors=True)
RmTree(d) == NoDisk

CleanupDueOnError == temp_dir # "None" /\ disk.dir /\ exc # "none"

\* Line 948: if self.temp_dir and os.path.exists(self.temp_dir)
CleanupDue == temp_dir # "None" /\ disk.dir

\* Lines 947-952: the finally clause; run returns.
Finally ==
    /\ pc = "finally"
    /\ disk' = IF CleanupDue THEN RmTree(disk) ELSE disk
    /\ pc' = "done"
    /\ UNCHANGED <<inputVars, uiVars, callerVars, segVars, is_running, temp_dir, localVars, progress, exc, emitted,
                   ffmpeg, output_file, histVars>>

\* The caller clears the job's cancellation flag (worker.is_running = False)
\* while run is executing.
SetCancelled ==
    /\ pc \notin {"done"}
    /\ is_running
    /\ is_running' = FALSE
    /\ cancelledAt' = [pc |-> pc, i |-> i, nreqs |-> Len(reqs)]
    /\ UNCHANGED <<inputVars, uiVars, callerVars, segVars, pc, temp_dir, disk, localVars, progress, exc, emitted,
                   ffmpeg, output_file, reqs, failedReq, variantReqs, observed,
                   attempts>>

Next ==
    \/ RunStart
    \/ FetchVariant
    \/ SegCheck
    \/ SegGet
    \/ EmitCombining
    \/ Combine
    \/ FfmpegExit
    \/ FfmpegHangs
    \/ Except
    \/ Finally
    \/ SetCancelled

\* The steps of the job thread itself, without those of its environment.
RunSteps ==
    \/ RunStart
    \/ FetchVariant
    \/ SegCheck
    \/ SegGet
    \/ EmitCombining
    \/ Combine
    \/ FfmpegExit
    \/ Except
    \/ Finally

Spec == Init /\ [][Next]_vars

\* ------------------------------------------------- the main window's queue
Entry(u) == [url |-> u, status |-> "waiting", worker |-> FALSE]

InQueue(ad, u) == \E k \in 1..Len(ad) : ad[k].url = u

IndexOf(ad, u) == CHOOSE k \in 1..Len(ad) : ad[k].url = u

\* del self.active_downloads[url]
Without(ad, u) == SelectSeq(ad, LAMBDA e : e.url # u)

\* An unhandled exception in a slot: PyQt either reports it and goes on, or
\* aborts the process (qFatal), depending on its version and on sys.excepthook.
SlotRaises == alive' \in BOOLEAN

\* Lines 2123-2148
AddDownload(u) ==
    /\ alive
    /\ ~InQueue(active_downloads, u)
    /\ active_downloads' = Append(active_downloads, Entry(u))
    /\ start_all_enabled' = TRUE
    /\ UNCHANGED <<jobVars, callerVars, segVars, workers, concurrent, stopRequested, alive,
                   stop_all_enabled>>

\* Lines 2342-2364: start_download, on the queue and on the threads.
StartedEntry(e) == [e EXCEPT !.status = "downloading", !.worker = TRUE]

StartedWorker == [state |-> "running", is_running |-> TRUE]

\* Lines 2366-2370: the first waiting entry, in dictionary order, is started.
FirstWaiting(ad) ==
    CHOOSE k \in 1..Len(ad) :
        /\ ad[k].status = "waiting"
        /\ \A j \in 1..(k - 1) : ad[j].status # "waiting"

StartNextQueue(ad) ==
    IF \E k \in 1..Len(ad) : ad[k].status = "waiting"
    THEN [ad EXCEPT ![FirstWaiting(ad)] = StartedEntry(@)]
    ELSE ad

StartNextWorkers(ad, w) ==
    IF \E k \in 1..Len(ad) : ad[k].status = "waiting"
    THEN [w EXCEPT ![ad[FirstWaiting(ad)].url] = StartedWorker]
    ELSE w

\* Lines 2235-2259 (a save directory is chosen)
StartAll ==
    /\ alive
    /\ start_all_enabled
    /\ active_downloads # <<>>
    /\ start_all_enabled' = FALSE
    /\ stop_all_enabled' = TRUE
    /\ IF concurrent
       THEN /\ active_downloads' =
                 [k \in 1..Len(active_downloads) |->
                     IF active_downloads[k].status = "waiting"
                     THEN StartedEntry(active_downloads[k])
                     ELSE active_downloads[k]]
            /\ workers' =
                 [u \in Urls |->
                     IF \E k \in 1..Len(active_downloads) :
                            /\ active_downloads[k].url = u
                            /\ active_downloads[k].status = "waiting"
                     THEN StartedWorker
                     ELSE workers[u]]
       ELSE /\ active_downloads' = StartNextQueue(active_downloads)
            /\ workers' = StartNextWorkers(active_downloads, workers)
    /\ UNCHANGED <<jobVars, callerVars, segVars, concurrent, stopRequested, alive>>

\* download['worker'].stop(): StreamDownloader defines no stop method (lines
\* 490-952) and QThread has none, so the call raises AttributeError and
\* leaves the thread object as it was.
WorkerStop(w) == w

\* Lines 2261-2281: the loop reaches the first downloading entry and calls
\* stop() on its worker, before any status is changed.
StopAll ==
    /\ alive
    /\ stop_all_enabled
    /\ IF \E k \in 1..Len(active_downloads) : active_downloads[k].status = "downloading"
       THEN LET k == CHOOSE n \in 1..Len(active_downloads) :
                        /\ active_downloads[n].status = "downloading"
                        /\ \A j \in 1..(n - 1) :
                               active_downloads[j].status # "downloading"
                u == active_downloads[k].url
            IN  /\ workers' = [workers EXCEPT ![u] = WorkerStop(@)]
                /\ stopRequested' = stopRequested \cup {u}
                /\ SlotRaises
                /\ UNCHANGED <<start_all_enabled, stop_all_enabled>>
       ELSE /\ stop_all_enabled' = FALSE
            /\ start_all_enabled' = TRUE
            /\ UNCHANGED <<workers, stopRequested, alive>>
    /\ UNCHANGED <<jobVars, callerVars, segVars, active_downloads, concurrent>>

\* Lines 2314-2340; confirmed is the answer to the 'Confirm Cancel' question.
RemoveDownload(u, confirmed) ==
    /\ alive
    /\ InQueue(active_downloads, u)
    /\ LET e == active_downloads[IndexOf(active_downloads, u)]
       IN  IF e.status = "downloading" /\ ~confirmed
           THEN UNCHANGED <<active_downloads, workers, stopRequested, alive,
                            start_all_enabled, stop_all_enabled>>
           ELSE IF e.worker
           THEN /\ workers' = [workers EXCEPT ![u] = WorkerStop(@)]
                /\ stopRequested' =
                     IF e.status = "downloading"
                     THEN stopRequested \cup {u}
                     ELSE stopRequested
                /\ SlotRaises
                /\ UNCHANGED <<active_downloads, start_all_enabled, stop_all_enabled>>
           ELSE /\ active_downloads' = Without(active_downloads, u)
                /\ IF Without(active_downloads, u) = <<>>
                   THEN /\ start_all_enabled' = FALSE
                        /\ stop_all_enabled' = FALSE
                   ELSE UNCHANGED <<start_all_enabled, stop_all_enabled>>
                /\ UNCHANGED <<workers, stopRequested, alive>>
    /\ UNCHANGED <<jobVars, callerVars, segVars, concurrent>>

\* The thread's run emits its terminal signal and returns (lines 942, 946).
WorkerFinish(u) ==
    /\ alive
    /\ workers[u].state = "running"
    /\ \E sig \in {"sig_complete", "sig_error"} :
          workers' = [workers EXCEPT ![u].state = sig]
    /\ UNCHANGED <<jobVars, callerVars, segVars, active_downloads, concurrent, stopRequested, alive,
                   start_all_enabled, stop_all_enabled>>

AnyDownloading(ad) == \E k \in 1..Len(ad) : ad[k].status = "downloading"

\* Lines 2398-2441 (status "completed") and 2443-2465 (status "error"): the
\* slots of the terminal signals. start_download (line 2363) enables 'Stop
\* All' when the next waiting entry is started.
TerminalSlot(u, sig, status) ==
    /\ alive
    /\ workers[u].state = sig
    /\ LET w == [workers EXCEPT ![u].state = "finished"]
       IN  IF ~InQueue(active_downloads, u)
           THEN /\ workers' = w
                /\ UNCHANGED <<active_downloads, start_all_enabled, stop_all_enabled>>
           ELSE LET ad == [active_downloads EXCEPT
                              ![IndexOf(active_downloads, u)].status = status]
                    next == IF ~concurrent THEN StartNextQueue(ad) ELSE ad
                IN  /\ active_downloads' = next
                    /\ workers' = IF ~concurrent THEN StartNextWorkers(ad, w) ELSE w
                    /\ IF status = "completed" /\ ~AnyDownloading(next)
                       THEN \* lines 2419-2426
                            /\ start_all_enabled' = TRUE
                            /\ stop_all_enabled' = FALSE
                       ELSE /\ start_all_enabled' = start_all_enabled
                            /\ stop_all_enabled' = (stop_all_enabled \/ next # ad)
    /\ UNCHANGED <<jobVars, callerVars, segVars, concurrent, stopRequested, alive>>

DownloadFinished(u) == TerminalSlot(u, "sig_complete", "completed")

DownloadError(u) == TerminalSlot(u, "sig_error", "error")

\* The user checks or unchecks 'Download Streams Concurrently' (lines 1019-1022, 1232).
ToggleConcurrent ==
    /\ alive
    /\ concurrent' = ~concurrent
    /\ UNCHANGED <<jobVars, callerVars, segVars, active_downloads, workers, stopRequested, alive,
                   start_all_enabled, stop_all_enabled>>

NextUI ==
    \/ \E u \in Urls : AddDownload(u)
    \/ StartAll
    \/ StopAll
    \/ \E u \in Urls, confirmed \in BOOLEAN : RemoveDownload(u, confirmed)
    \/ \E u \in Urls : WorkerFinish(u)
    \/ \E u \in Urls : DownloadFinished(u)
    \/ \E u \in Urls : DownloadError(u)
    \/ ToggleConcurrent

\* The queue of the main window, with the job threads seen from outside.
InitUI ==
    /\ JobInit({[kind |-> "url", playlist |-> EmptyPlaylist]}, {"best"},
               {DefaultRetry}, {NoFault})
    /\ UIInit
    /\ CallerIdle
    /\ SegIdle

SpecUI == InitUI /\ [][NextUI]_vars

\* The queue when 'Download Streams Concurrently' is left unchecked and the
\* user only adds URLs and clicks 'Start All'.
NextQueue ==
    \/ \E u \in Urls : AddDownload(u)
    \/ StartAll
    \/ \E u \in Urls : WorkerFinish(u)
    \/ \E u \in Urls : DownloadFinished(u)
    \/ \E u \in Urls : DownloadError(u)

SpecQueue == InitUI /\ [][NextQueue]_vars

\* ------------------------------------- the jobs of one caller, side by side
\* Line 785: tempfile.mkdtemp() makes a directory that did not exist; lines
\* 812-836: the resolution is that of the selected variant.
JobRun(u) ==
    /\ jobs[u].pc = "idle"
    /\ made' = made + 1
    /\ \E h \in Heights :
          jobs' = [jobs EXCEPT ![u] = [@ EXCEPT !.pc = "download",
                                                !.temp_dir = made + 1,
                                                !.resolution = h]]
    /\ UNCHANGED <<jobVars, uiVars, segVars, now, saved>>

\* Lines 863-905: the segment files and intermediate.ts are written under
\* os.path.join(self.temp_dir, ...).
JobWriteWorkspace(u) ==
    /\ jobs[u].pc = "download"
    /\ jobs' = [jobs EXCEPT ![u] = [@ EXCEPT !.pc = "name",
                                              !.wrote = @ \cup {jobs[u].temp_dir}]]
    /\ UNCHANGED <<jobVars, uiVars, segVars, now, made, saved>>

\* Lines 910-913: the output path is made of the save directory, the time to
\* the second and the resolution.
JobNameOutput(u) ==
    /\ jobs[u].pc = "name"
    /\ jobs' = [jobs EXCEPT ![u] = [@ EXCEPT
                    !.pc = "convert",
                    !.output_file = OutputPath(now, jobs[u].resolution)]]
    /\ UNCHANGED <<jobVars, uiVars, segVars, now, made, saved>>

\* Lines 916-942: ffmpeg -y writes output_file, replacing a file of that
\* path; the job completes.
JobConvert(u) ==
    /\ jobs[u].pc = "convert"
    /\ saved' = {f \in saved : f.path # jobs[u].output_file}
                 \cup {[path |-> jobs[u].output_file, by |-> u]}
    /\ jobs' = [jobs EXCEPT ![u].pc = "done"]
    /\ UNCHANGED <<jobVars, uiVars, segVars, now, made>>

\* A second passes.
Tick ==
    /\ now < MaxClock
    /\ now' = now + 1
    /\ UNCHANGED <<jobVars, uiVars, segVars, jobs, made, saved>>

NextJobs ==
    \/ \E u \in Urls : JobRun(u)
    \/ \E u \in Urls : JobWriteWorkspace(u)
    \/ \E u \in Urls : JobNameOutput(u)
    \/ \E u \in Urls : JobConvert(u)
    \/ Tick

SpecJobs == InitUI /\ [][NextJobs]_vars

\* ------------------------------------------------------ download_segment
\* Lines 567-573: what segment_url is after the rewriting. A scheme-relative
\* reference gets 'https:'; any other reference that does not start with
\* 'http' gets a leading '/' if it has none and is appended to the scheme and
\* netloc of self.url.
LocateSegment(ref, parent) ==
    IF ref.form = "schemerel" THEN Ref("abs", "https", ref.netloc, ref.path)
    ELSE IF ref.form = "abs" THEN ref
    ELSE Ref("abs", parent.scheme, parent.netloc, ref.path)

\* progress_updated.emit(self.url, v, ...) while holding the lock named
Emit(v, lock, n) ==
    /\ last_progress' = [value |-> v, lock |-> lock, holders |-> download_lock,
                         completed |-> n]
    /\ decreased' = (decreased \/ v < last_progress.value)

\* int((index + segment_progress/100) / total * 90), with
\* segment_progress = int((downloaded_size / total_size) * 100), after k
\* chunks of n equal ones
ChunkProgress(index, k, n, total) ==
    ((index * 100 + ((k * 100) \div n)) * 90) \div (100 * total)

\* int(len(self.completed_segments) / total * 90)
CompletedProgress(completed, total) ==
    (Cardinality(completed) * 90) \div total

\* return: the call is over
Returned(call, value) == [call EXCEPT !.pc = "returned", !.ret = value]

\* Lines 623-628: the handler of the try of line 563: the loop goes on with
\* the next attempt, or the call returns False after the last one.
Handler(call) ==
    IF call.attempt < retry_count - 1
    THEN [call EXCEPT !.pc = "try", !.attempt = @ + 1, !.k = 0]
    ELSE Returned(call, FALSE)

RemoveTempSkipped(p) == p

\* Lines 629-634, the finally clause, which runs whenever the try is left:
\* temp_path is removed if it exists.
RemoveTemp(p) == [p EXCEPT !.temp = FALSE]

\* Lines 546-557: the session sends through HTTPAdapter(max_retries=
\* self.retry_count): a refused connection is tried again retry_count times
\* within one session.get; an answered request is sent once.
WireTries == IF refused THEN retry_count + 1 ELSE 1

\* Lines 562-586: the head of the retry loop, the cancellation check, the
\* rewriting of segment_url, session.get and raise_for_status, and the
\* opening of temp_path.
SegTry(c) ==
    /\ calls[c].pc = "try"
    /\ UNCHANGED <<runVars, uiVars, callerVars, segInputs, is_running, retry_count,
                   completed_segments, download_lock, last_progress, decreased>>
    /\ IF calls[c].attempt >= retry_count
       THEN \* range(self.retry_count) is exhausted: line 635
            /\ calls' = [calls EXCEPT ![c] = Returned(@, FALSE)]
            /\ UNCHANGED paths
       ELSE IF ~is_running
       THEN /\ calls' = [calls EXCEPT ![c] = Returned(@, FALSE)]
            /\ paths' = [paths EXCEPT ![c] = RemoveTemp(@)]
       ELSE LET located == [calls[c] EXCEPT
                               !.segment_url = LocateSegment(@, url_parts),
                               !.gets = @ + 1,
                               !.file_size = -1,
                               !.wire = @ + WireTries]
            IN  \/ \* the request or the opening of temp_path fails
                   /\ calls' = [calls EXCEPT ![c] = Handler(located)]
                   /\ paths' = [paths EXCEPT ![c] = RemoveTemp(@)]
                \/ /\ ~refused
                   /\ calls' = [calls EXCEPT ![c] = [located EXCEPT !.pc = "read", !.k = 0]]
                   /\ paths' = [paths EXCEPT ![c].temp = TRUE]

\* Lines 587-600: one turn of the iter_content loop: the stream breaks, or a
\* chunk arrives, is written and, when the total size is known, reported
\* under progress_lock.
SegChunk(c) ==
    /\ calls[c].pc = "read"
    /\ calls[c].k < nchunks
    /\ UNCHANGED <<runVars, uiVars, callerVars, segInputs, is_running, retry_count,
                   completed_segments, download_lock>>
    /\ \/ /\ calls' = [calls EXCEPT ![c] = Handler(@)]
          /\ paths' = [paths EXCEPT ![c] = RemoveTemp(@)]
          /\ UNCHANGED <<last_progress, decreased>>
       \/ IF ~is_running
          THEN /\ calls' = [calls EXCEPT ![c] = Returned(@, FALSE)]
               /\ paths' = [paths EXCEPT ![c] = RemoveTemp(@)]
               /\ UNCHANGED <<last_progress, decreased>>
          ELSE /\ calls' = [calls EXCEPT ![c].k = @ + 1]
               /\ UNCHANGED paths
               /\ IF length_known
                  THEN Emit(ChunkProgress(c, calls[c].k + 1, nchunks, seg_total),
                            "progress_lock", 0)
                  ELSE UNCHANGED <<last_progress, decreased>>

\* os.path.getsize(temp_path) when the body is complete: the sizes around
\* the threshold of line 604
Sizes == {99, 100}

TooSmallInclusive(size) == size <= 100

\* Line 604: if file_size < 100
TooSmall(size) == size < 100

\* Lines 602-607: the body is complete; a file of less than 100 bytes is an
\* error, any other is moved to output_path.
SegCheckFile(c) ==
    /\ calls[c].pc = "read"
    /\ calls[c].k = nchunks
    /\ UNCHANGED <<runVars, uiVars, callerVars, segInputs, is_running, retry_count,
                   completed_segments, download_lock, last_progress, decreased>>
    /\ \E size \in Sizes :
          LET sized == [calls[c] EXCEPT !.file_size = size]
          IN  IF TooSmall(size)
              THEN /\ calls' = [calls EXCEPT ![c] = Handler(sized)]
                   /\ paths' = [paths EXCEPT ![c] = RemoveTemp(@)]
              ELSE /\ calls' = [calls EXCEPT ![c] = [sized EXCEPT !.pc = "lock"]]
                   /\ paths' = [paths EXCEPT ![c] = [temp |-> FALSE, out |-> TRUE]]

LockIgnored == TRUE

\* with self.download_lock: the lock can be taken when nobody holds it
LockFree == download_lock = {}

\* Lines 609-611: download_lock is taken, the index is added and the
\* percentage of completed segments is computed.
SegAcquire(c) ==
    /\ calls[c].pc = "lock"
    /\ LockFree
    /\ download_lock' = download_lock \cup {c}
    /\ completed_segments' = completed_segments \cup {c}
    /\ calls' = [calls EXCEPT
                    ![c].pc = "locked",
                    ![c].progress = CompletedProgress(completed_segments', seg_total)]
    /\ UNCHANGED <<runVars, uiVars, callerVars, segInputs, is_running, retry_count, paths,
                   last_progress, decreased>>

\* Lines 612-617: the percentage is emitted, the lock is released and the
\* call returns True.
SegEmitCompleted(c) ==
    /\ calls[c].pc = "locked"
    /\ Emit(calls[c].progress, "download_lock", Cardinality(completed_segments))
    /\ download_lock' = download_lock \ {c}
    /\ calls' = [calls EXCEPT ![c] = Returned(@, TRUE)]
    /\ paths' = [paths EXCEPT ![c] = RemoveTemp(@)]
    /\ UNCHANGED <<runVars, uiVars, callerVars, segInputs, is_running, retry_count,
                   completed_segments>>

\* The caller clears the cancellation flag while calls are running.
SegCancel ==
    /\ is_running
    /\ \E c \in DOMAIN calls : calls[c].pc # "returned"
    /\ is_running' = FALSE
    /\ UNCHANGED <<runVars, uiVars, callerVars, segVars, retry_count>>

NextSegment ==
    \/ \E c \in DOMAIN calls : SegTry(c)
    \/ \E c \in DOMAIN calls : SegChunk(c)
    \/ \E c \in DOMAIN calls : SegCheckFile(c)
    \/ \E c \in DOMAIN calls : SegAcquire(c)
    \/ \E c \in DOMAIN calls : SegEmitCompleted(c)
    \/ SegCancel

\* The job of InitUI, on which download_segment is called; the calls are
\* concurrent for one manifest URL and segment URI, or there is a single call
\* for any manifest URL and segment URI, or a single call to a server that
\* refuses connections.
InitSegment ==
    /\ url = [kind |-> "url", playlist |-> EmptyPlaylist]
    /\ quality = "best"
    /\ faults = NoFault
    /\ pc = "start"
    /\ is_running = TRUE
    /\ temp_dir = "None"
    /\ disk = NoDisk
    /\ playlist = EmptyPlaylist
    /\ selected_stream = NoStream
    /\ selected_url = "unbound"
    /\ i = 0
    /\ segment_files = <<>>
    /\ progress = <<>>
    /\ exc = "none"
    /\ emitted = <<>>
    /\ ffmpeg = "not_run"
    /\ output_file = "none"
    /\ reqs = <<>>
    /\ failedReq = FALSE
    /\ variantReqs = 0
    /\ cancelledAt = NotCancelled
    /\ observed = FALSE
    /\ attempts = <<>>
    /\ UIInit
    /\ CallerIdle
    /\ \/ SegInit(1..MaxCalls, 1..MaxChunks, 0..MaxAttempts,
                  {Ref("abs", "http", "h", <<"a", "b", "index.m3u8">>)},
                  {Ref("rel", "", "", <<"seg.ts">>)}, {FALSE})
       \/ SegInit({1}, {1}, {1}, ManifestUrls, SegmentUris, {FALSE})
       \/ SegInit({1}, {1}, 0..MaxAttempts,
                  {Ref("abs", "http", "h", <<"index.m3u8">>)},
                  {Ref("abs", "http", "h", <<"seg.ts">>)}, {TRUE})

SpecSegment == InitSegment /\ [][NextSegment]_vars

\* ------------------------------------------------------ combine_segments
\* The call combine_segments(segment_files, output_file) on a job whose
\* workspace holds the files of segment_files (temp_dir is None on a job
\* whose run has not made the workspace). pc is "cs_start" when the call
\* begins, "cs_true" / "cs_false" when it has returned True / False.
CombineInit ==
    /\ url = [kind |-> "url", playlist |-> EmptyPlaylist]
    /\ quality = "best"
    /\ retry_count = DefaultRetry
    /\ faults = NoFault
    /\ pc = "cs_start"
    /\ is_running = TRUE
    /\ \E n \in 0..MaxSegs :
          /\ segment_files = [k \in 1..n |-> k - 1]
          /\ \/ /\ temp_dir = "tmpdir"
                /\ disk = [dir |-> TRUE,
                           files |-> {SegmentFile(k, <<k>>) : k \in 0..(n - 1)}]
             \/ /\ temp_dir = "None"
                /\ disk = NoDisk
    /\ playlist = EmptyPlaylist
    /\ selected_stream = NoStream
    /\ selected_url = "unbound"
    /\ i = 0
    /\ progress = <<>>
    /\ exc = "none"
    /\ emitted = <<>>
    /\ ffmpeg = "not_run"
    /\ output_file = "none"
    /\ reqs = <<>>
    /\ failedReq = FALSE
    /\ variantReqs = 0
    /\ cancelledAt = NotCancelled
    /\ observed = FALSE
    /\ attempts = <<>>
    /\ UIInit
    /\ CallerIdle
    /\ SegIdle

\* min(int((i / len(segment_files)) * 50), 49)
ConcatProgress(k, n) ==
    LET p == (k * 50) \div n IN IF p < 49 THEN p ELSE 49

\* The frame numbers of the 'frame=' lines of ffmpeg
Frames == {0, 500, 24500, 25000}

FrameProgressUncapped(frame) == 50 + (frame \div 500)

\* min(50 + int(frame / 500), 99)
FrameProgress(frame) ==
    LET p == 50 + (frame \div 500) IN IF p < 99 THEN p ELSE 99

\* Lines 719-725, the finally clause: temp_fixed.ts is removed.
RemoveTempFixed(d) == [d EXCEPT !.files = {f \in @ : f.name # "temp_fixed"}]

\* Lines 638-687: ffmpeg is looked up, 0 is emitted, the segments are
\* concatenated into temp_fixed.ts with one emission each, 50 is emitted and
\* ffmpeg is started. Without ffmpeg or without a workspace the call returns
\* False.
CsStart ==
    /\ pc = "cs_start"
    /\ UNCHANGED <<inputVars, uiVars, callerVars, segVars, is_running, temp_dir, playlist,
                   selected_stream, selected_url, segment_files, exc, emitted,
                   output_file, histVars>>
    /\ \/ \* shutil.which('ffmpeg') is None (line 639)
          /\ pc' = "cs_false"
          /\ UNCHANGED <<disk, i, progress, ffmpeg>>
       \/ IF temp_dir = "None"
          THEN \* os.path.join(None, ...) raises TypeError (line 643)
               /\ pc' = "cs_false"
               /\ UNCHANGED <<disk, i, progress, ffmpeg>>
          ELSE LET n == Len(segment_files)
               IN  /\ disk' = WriteFile(disk,
                                 [name |-> "temp_fixed", n |-> 0,
                                  data |-> Concat(disk, segment_files)])
                   /\ progress' = progress \o <<0>>
                                     \o [k \in 1..n |-> ConcatProgress(k - 1, n)]
                                     \o <<50>>
                   /\ i' = IF n = 0 THEN i ELSE n - 1
                   /\ ffmpeg' = "running"
                   /\ pc' = "cs_loop"

\* Lines 689-692: the head of the loop: a cancelled job terminates ffmpeg and
\* returns False.
CsLoop ==
    /\ pc = "cs_loop"
    /\ UNCHANGED <<inputVars, uiVars, callerVars, segVars, is_running, temp_dir, localVars, progress,
                   exc, emitted, output_file, histVars>>
    /\ IF ~is_running
       THEN /\ ffmpeg' = IF ffmpeg = "running" THEN "terminated" ELSE ffmpeg
            /\ disk' = RemoveTempFixed(disk)
            /\ pc' = "cs_false"
       ELSE /\ pc' = "cs_read"
            /\ UNCHANGED <<ffmpeg, disk>>

\* The subprocess exits on its own, with a return code and with or without
\* an output file of at least 1000 bytes.
CsProcessExits ==
    /\ pc \in {"cs_loop", "cs_read"}
    /\ ffmpeg = "running"
    /\ \E rc \in {0, 1}, out \in {"none", "valid", "invalid"} :
          /\ ffmpeg' = IF rc = 0 THEN "exit0" ELSE "exit1"
          /\ output_file' = out
    /\ UNCHANGED <<inputVars, uiVars, callerVars, segVars, pc, is_running, temp_dir, disk, localVars,
                   progress, exc, emitted, histVars>>

\* Lines 694-704: readline returns a line of stderr. A line with a frame
\* number is reported; any other line (or an empty read while ffmpeg is still
\* running) is not.
CsReadLine ==
    /\ pc = "cs_read"
    /\ pc' = "cs_loop"
    /\ UNCHANGED <<inputVars, uiVars, callerVars, segVars, is_running, temp_dir, disk, localVars, exc,
                   emitted, ffmpeg, output_file, histVars>>
    /\ \/ progress' = progress
       \/ /\ Len(progress) < Len(segment_files) + 2 + MaxLines
          /\ \E frame \in Frames : progress' = Append(progress, FrameProgress(frame))

\* Lines 695-725: stderr is at its end and ffmpeg has exited: the loop is
\* left, the return code and the output file are checked, 100 is emitted and
\* the call returns True, or an exception makes it return False.
CsBreak ==
    /\ pc = "cs_read"
    /\ ffmpeg \in {"exit0", "exit1"}
    /\ disk' = RemoveTempFixed(disk)
    /\ UNCHANGED <<inputVars, uiVars, callerVars, segVars, is_running, temp_dir, localVars, exc,
                   emitted, ffmpeg, output_file, histVars>>
    /\ IF ffmpeg = "exit0" /\ output_file = "valid"
       THEN /\ progress' = Append(progress, 100)
            /\ pc' = "cs_true"
       ELSE /\ progress' = progress
            /\ pc' = "cs_false"

NextCombine ==
    \/ CsStart
    \/ CsLoop
    \/ CsProcessExits
    \/ CsReadLine
    \/ CsBreak

\* The two places where a job runs ffmpeg: run and combine_segments. The
\* caller's write to is_running (SetCancelled) is a step of Next.
InitConvert == Init \/ CombineInit

NextConvert == Next \/ NextCombine

SpecConvert == InitConvert /\ [][NextConvert]_vars

\* ===================================================================
\* Properties of StreamDownloader.run (specification Spec) and of the
\* main window (specification SpecUI)
\* ===================================================================
Terminal == {"download_complete", "download_error"}

Ordinals(n) == [k \in 1..n |-> k - 1]

HasIntermediate == \E f \in disk.files : f.name = "intermediate"

\* C1: a job whose source is literal media-manifest text (N >= 1 segments, no
\* variants), whose segment requests all succeed and whose ffmpeg step exits 0
\* with a valid output file, emits download_complete exactly once and never
\* download_error.
C1_LiteralMediaJobCompletes ==
    ( /\ pc = "done"
      /\ url.kind = "media"
      /\ ~failedReq
      /\ cancelledAt = NotCancelled
      /\ ffmpeg # "exit1"
      /\ output_file # "invalid" )
    => emitted = <<"download_complete">>

\* C2: every execution of run emits exactly one terminal callback, either
\* download_complete or download_error: never two, and one by the time it
\* returns.
C2_ExactlyOneTerminalCallback ==
    /\ Len(emitted) <= 1
    /\ \A k \in 1..Len(emitted) : emitted[k] \in Terminal
    /\ pc = "done" => Len(emitted) = 1

C2_Witness ==
    /\ pc = "done"
    /\ emitted = <<"download_complete">>

\* C3: when run returns, on every exit path, the workspace directory it
\* created no longer exists.
C3_WorkspaceRemovedAtReturn ==
    pc = "done" => (~disk.dir /\ disk.files = {})

C3_Witness ==
    /\ pc = "done"
    /\ temp_dir = "tmpdir"
    /\ segment_files # <<>>
    /\ emitted = <<"download_error">>

\* C4 as stated: in every state in which run has emitted download_complete or
\* download_error, the workspace directory has already been removed.
C4_CleanupBeforeCallback ==
    emitted # <<>> => ~disk.dir

\* C4 as amended: the workspace is removed after the terminal callback, by the
\* finally clause that follows it: it still exists when the callback is
\* emitted, it is never removed before the callback, and the only state with
\* a callback emitted and the workspace present is the one at the finally
\* clause.
C4_CleanupFollowsCallback ==
    /\ (temp_dir = "tmpdir" /\ ~disk.dir) => (Len(emitted) = 1 /\ pc = "done")
    /\ (emitted # <<>> /\ disk.dir) => pc = "finally"

C4_Witness ==
    /\ pc = "finally"
    /\ emitted = <<"download_complete">>
    /\ disk.dir

\* C5: whenever run reaches the concatenation step for a manifest of N
\* segments, the intermediate file is the concatenation of the files of
\* segments 0 .. N-1 in manifest order, each exactly once.
C5_IntermediateInManifestOrder ==
    \A f \in disk.files :
        f.name = "intermediate" => f.data = Ordinals(playlist.segments)

C5_Witness ==
    \E f \in disk.files : f.name = "intermediate" /\ Len(f.data) >= 2

\* C6: partial segment sets are never assembled: the intermediate file is
\* written and ffmpeg is invoked only when every one of the N segments was
\* downloaded; if a segment request fails there is no intermediate file, no
\* ffmpeg run, no output file, and the job ends with download_error.
C6_NoPartialAssembly ==
    /\ (HasIntermediate \/ ffmpeg # "not_run" \/ output_file # "none")
          => /\ ~failedReq
             /\ reqs = Ordinals(playlist.segments)
             /\ segment_files = Ordinals(playlist.segments)
    /\ failedReq
          => /\ ~HasIntermediate
             /\ ffmpeg = "not_run"
             /\ output_file = "none"
             /\ pc = "done" => emitted = <<"download_error">>

C6_Witness ==
    /\ pc = "done"
    /\ failedReq
    /\ Len(reqs) >= 2
    /\ emitted = <<"download_error">>

\* C7: when run observes the cancellation flag at a checkpoint, the job ends
\* without emitting download_error.
C7_CancellationIsNotAnError ==
    observed => \A k \in 1..Len(emitted) : emitted[k] # "download_error"

\* C8: when the caller asks a downloading job to stop (Stop All, or Cancel of
\* a download whose status is 'downloading'), the job's cancellation flag
\* becomes set (worker.is_running becomes False).
C8_StopClearsIsRunning ==
    \A u \in stopRequested : ~workers[u].is_running

\* C9: once the cancellation flag is set, run issues no segment request
\* other than the one of the ordinal in flight when the flag was set (the
\* iteration that had already passed its checkpoint), and the workspace is
\* removed when run returns.
C9_NoRequestAfterCancellation ==
    /\ ~is_running =>
          \A k \in (cancelledAt.nreqs + 1)..Len(reqs) :
              cancelledAt.pc = "seg_get" /\ reqs[k] = cancelledAt.i
    /\ (~is_running /\ pc = "done") => ~disk.dir

C9_Witness ==
    /\ pc = "done"
    /\ observed
    /\ cancelledAt.pc = "seg_get"
    /\ cancelledAt.i >= 1
    /\ Len(reqs) = cancelledAt.nreqs + 1
    /\ Len(reqs) < playlist.segments

\* C10: if the cancellation flag becomes set while the ffmpeg subprocess is
\* running, the subprocess is terminated and the job ends without emitting
\* download_complete and without reporting an error.
C10_CancelDuringFfmpeg ==
    (cancelledAt.pc = "ffmpeg" /\ pc = "done")
    => (ffmpeg = "terminated" /\ emitted = <<>>)

\* C11: if the ffmpeg subprocess neither exits nor writes a line, the job
\* thread is not stuck: it still has a step to take (the one that kills the
\* subprocess after a stall or an overall timeout and ends the job with an
\* error).
C11_HungFfmpegIsKilled ==
    ffmpeg = "hung" => ENABLED RunSteps

RECURSIVE WireAttempts(_, _, _)
\* The number of HTTP attempts made for segment n, over all its requests.
WireAttempts(rs, as, n) ==
    IF rs = <<>> THEN 0
    ELSE (IF Head(rs) = n THEN Head(as) ELSE 0) + WireAttempts(Tail(rs), Tail(as), n)

\* The variant was fetched, nobody cancelled, and ffmpeg, if it ran, exited 0
\* with a valid output file.
OnlySegmentsCanFail ==
    /\ selected_url = "abs"
    /\ playlist.segments >= 1
    /\ cancelledAt = NotCancelled
    /\ ffmpeg \in {"not_run", "exit0"}
    /\ ffmpeg = "exit0" => output_file = "valid"

\* C12: a job in which the requests of one segment fail retry_attempts - 1
\* times and then succeed, and every other segment request succeeds, ends
\* with download_complete and no download_error, for every
\* retry_attempts >= 2.
C12_RetriedSegmentStillSucceeds ==
    ( /\ pc = "done"
      /\ OnlySegmentsCanFail
      /\ retry_count >= 2
      /\ faults.seg \in 0..(playlist.segments - 1)
      /\ faults.count = retry_count - 1 )
    => emitted = <<"download_complete">>

\* C13: for a manifest of 3 segments whose segment 2 always fails, the job
\* ends with download_error after exactly retry_attempts requests for segment
\* 2, and segments 1 and 3 are requested exactly once each.
C13_FailingSegmentRequestCounts ==
    ( /\ pc = "done"
      /\ OnlySegmentsCanFail
      /\ playlist.segments = 3
      /\ faults.seg = 1
      /\ faults.count = Always )
    => /\ emitted = <<"download_error">>
       /\ WireAttempts(reqs, attempts, 1) = retry_count
       /\ WireAttempts(reqs, attempts, 0) = 1
       /\ WireAttempts(reqs, attempts, 2) = 1

\* C14: when the job source is a URL, run fetches the manifest from it before
\* parsing: the job goes on to request segments and does not end with 'No
\* segments found'.
C14_UrlSourceIsFetched ==
    ( /\ pc = "done"
      /\ url.kind = "url"
      /\ cancelledAt = NotCancelled )
    => /\ reqs # <<>>
       /\ exc # "No segments found in playlist"

\* The variants of the source manifest, and whether all of them (none of
\* them) declare a resolution.
SourceVariants == {url.playlist.playlists[k] : k \in 1..Len(url.playlist.playlists)}

AllDeclareResolution == \A v \in SourceVariants : v.res

NoneDeclaresResolution == \A v \in SourceVariants : ~v.res

\* C15: with quality 'best' on a master manifest whose variants all declare a
\* resolution, the selected variant has height 1080 whenever one of them has
\* (even when a taller one is present), and has the greatest height present
\* otherwise; among the variants of that height it has the greatest
\* bandwidth.
C15_BestPrefers1080 ==
    ( /\ url.kind = "master"
      /\ quality = "best"
      /\ AllDeclareResolution
      /\ pc # "start" )
    => /\ selected_url # "unbound"
       /\ selected_stream \in SourceVariants
       /\ IF \E v \in SourceVariants : v.height = 1080
          THEN selected_stream.height = 1080
          ELSE \A v \in SourceVariants : v.height <= selected_stream.height
       /\ \A v \in SourceVariants :
             v.height = selected_stream.height
                => v.bandwidth <= selected_stream.bandwidth

C15_Witness ==
    /\ pc = "fetch_variant"
    /\ quality = "best"
    /\ \E v \in SourceVariants : v.height = 2160
    /\ selected_stream.height = 1080

\* C16: on a master manifest in which no variant declares a resolution, the
\* selection falls back to bandwidth: 'best' selects the greatest bandwidth,
\* 'worst' the smallest, and the job goes on to fetch that variant instead of
\* failing.
C16_BandwidthFallback ==
    ( /\ url.kind = "master"
      /\ NoneDeclaresResolution
      /\ quality \in {"best", "worst"}
      /\ pc # "start" )
    => /\ selected_url # "unbound"
       /\ selected_stream \in SourceVariants
       /\ quality = "best" =>
             \A v \in SourceVariants : v.bandwidth <= selected_stream.bandwidth
       /\ quality = "worst" =>
             \A v \in SourceVariants : v.bandwidth >= selected_stream.bandwidth

\* C17: the URI of the selected variant is resolved against the base URL of
\* the manifest before it is fetched, so that every variant request is made
\* to an absolute URL.
C17_VariantRequestAbsolute ==
    variantReqs >= 1 => selected_url = "abs"

\* C18: run fetches a variant playlist at most once; if the playlist fetched
\* is itself a master manifest (variants, no segments), the job ends with an
\* error and without any segment request.
C18_AtMostOneVariantFetch ==
    /\ variantReqs <= 1
    /\ (variantReqs = 1 /\ playlist.segments = 0 /\ playlist.playlists # <<>>)
          => /\ reqs = <<>>
             /\ exc # "none"
             /\ pc \in {"except", "finally", "done"}
             /\ pc = "done" => emitted = <<"download_error">>

C18_Witness ==
    /\ pc = "done"
    /\ variantReqs = 1
    /\ playlist.playlists # <<>>
    /\ exc = "No segments found in playlist"

\* ===================================================================
\* Properties of download_segment (specification SpecSegment)
\* ===================================================================
\* The reference resolved against the directory of the base URL: a relative
\* path is appended to the base path without its last component, a path that
\* starts with '/' replaces the base path.
UrlJoin(base, ref) ==
    IF ref.form = "rel"
    THEN Ref("abs", base.scheme, base.netloc,
             SubSeq(base.path, 1, Len(base.path) - 1) \o ref.path)
    ELSE Ref("abs", base.scheme, base.netloc, ref.path)

\* C19: a segment URI that is neither absolute nor scheme-relative is
\* resolved by download_segment against the directory of the manifest's URL
\* (http://h/a/b/index.m3u8 and seg.ts give http://h/a/b/seg.ts), not against
\* the host root or the manifest URL itself.
C19_RelativeUriJoinsDirectory ==
    \A c \in DOMAIN calls :
        (calls[c].gets >= 1 /\ segment_uri.form \in {"pathabs", "rel"})
        => calls[c].segment_url = UrlJoin(url_parts, segment_uri)

\* C20: the percentages emitted by the download_segment calls of one job,
\* per chunk and per completed segment together, never go down, whatever the
\* number of concurrent calls, their order of completion and their retries.
C20_ProgressNonDecreasing ==
    ~decreased

\* ===================================================================
\* Properties of the queue with sequential downloads (specification SpecQueue)
\* ===================================================================
\* C28: when 'Download Streams Concurrently' is unchecked, at most one entry
\* of active_downloads has status 'downloading', after any sequence of Add
\* URL, Start All, job completion and job error events.
C28_AtMostOneDownloading ==
    ~concurrent =>
        \A j, k \in 1..Len(active_downloads) :
            ( /\ active_downloads[j].status = "downloading"
              /\ active_downloads[k].status = "downloading" ) => j = k

\* ===================================================================
\* Progress of run (specification Spec)
\* ===================================================================
NonDecreasing(seq) == \A k \in 1..(Len(seq) - 1) : seq[k] <= seq[k + 1]

Count(seq, v) == Cardinality({k \in 1..Len(seq) : seq[k] = v})

InProgress(v) == \E k \in 1..Len(progress) : progress[k] = v

\* C29: the percentages emitted by one execution of run are non-decreasing
\* integers in 0..100; those emitted while segments are being downloaded are
\* at most 79; 80 is emitted only when every segment has been downloaded; 90
\* only when the intermediate file has been written; 100 at most once, as the
\* last value, together with download_complete.
C29_RunProgressIsStaged ==
    /\ NonDecreasing(progress)
    /\ \A k \in 1..Len(progress) : progress[k] \in 0..100
    /\ pc \in {"start", "fetch_variant", "seg_check", "seg_get", "combine"} =>
           \A k \in 1..Len(progress) : progress[k] <= 79
    /\ InProgress(80) =>
           /\ Len(segment_files) = playlist.segments
           /\ Len(reqs) = playlist.segments
           /\ ~failedReq
    /\ InProgress(90) =>
           /\ InProgress(80)
           /\ disk.dir => \E f \in disk.files : f.name = "intermediate"
    /\ Count(progress, 100) <= 1
    /\ InProgress(100) =>
           /\ progress[Len(progress)] = 100
           /\ InProgress(90)
           /\ emitted = <<"download_complete">>
    /\ emitted = <<"download_complete">> => InProgress(100)

C29_Witness ==
    /\ pc = "done"
    /\ playlist.segments = 3
    /\ progress = <<0, 0, 26, 53, 80, 90, 100>>

\* ===================================================================
\* Properties of download_segment (specification SpecSegment), continued
\* ===================================================================
\* C21: every progress emission of a fetch worker is made under the lock
\* that guards the completed-segment counter, so no worker emits a progress
\* value while another one holds that lock to compute and emit its own.
C21_OneLockForProgress ==
    /\ last_progress.lock \in {"none", "download_lock"}
    /\ last_progress.holders # {} => last_progress.lock = "download_lock"

\* C24: download_segment makes at most retry_count HTTP attempts; without
\* cancellation it returns True right after the first successful attempt and
\* returns False after exactly retry_count attempts when all of them fail.
C24_AtMostRetryCountAttempts ==
    \A c \in DOMAIN calls :
        /\ calls[c].wire <= retry_count
        /\ calls[c].pc \in {"lock", "locked"} => calls[c].wire = calls[c].attempt + 1
        /\ ( /\ calls[c].pc = "returned"
             /\ calls[c].ret = FALSE
             /\ is_running ) => calls[c].wire = retry_count

\* C25: an attempt whose file is smaller than 100 bytes fails although the
\* response was complete: the final file is not created, the index is not
\* added to completed_segments and one attempt of the budget is used up; a
\* file of 100 bytes or more is accepted.
C25_SmallFileFailsAttempt ==
    \A c \in DOMAIN calls :
        /\ calls[c].file_size \in 0..99 =>
               /\ ~paths[c].out
               /\ c \notin completed_segments
               /\ calls[c].pc \in {"try", "returned"}
               /\ calls[c].pc = "try" =>
                      /\ calls[c].attempt = calls[c].gets
                      /\ calls[c].attempt < retry_count
               /\ calls[c].pc = "returned" =>
                      /\ calls[c].ret = FALSE
                      /\ calls[c].gets = retry_count \/ ~is_running
        /\ calls[c].file_size >= 100 =>
               /\ paths[c].out
               /\ calls[c].pc \in {"lock", "locked", "returned"}
               /\ calls[c].pc = "returned" =>
                      calls[c].ret = TRUE /\ c \in completed_segments

C25_Witness ==
    /\ seg_total = MaxCalls
    /\ calls[0].file_size = 99
    /\ calls[0].pc = "try"
    /\ calls[0].attempt = 1
    /\ calls[1].file_size = 100
    /\ calls[1].pc = "returned"
    /\ calls[1].ret = TRUE

\* C26: when download_segment has returned (True, False after the last
\* attempt, or False on cancellation) its partial file does not exist, and
\* the final segment file exists exactly when the call returned True.
C26_NoPartialFileAtReturn ==
    \A c \in DOMAIN calls :
        calls[c].pc = "returned" =>
            /\ ~paths[c].temp
            /\ paths[c].out <=> calls[c].ret = TRUE

\* One call was cancelled while reading its body, one failed all its attempts
\* after its body had begun to arrive.
C26_Witness ==
    /\ seg_total = MaxCalls
    /\ \A c \in DOMAIN calls : calls[c].pc = "returned" /\ calls[c].ret = FALSE
    /\ calls[0].k >= 1
    /\ calls[0].gets < retry_count
    /\ calls[1].k >= 1
    /\ calls[1].gets = retry_count

\* C27: for every 'Retry Attempts' setting the settings tab allows,
\* download_segment makes at least one HTTP attempt for the segment before it
\* reports failure (cancellation aside).
C27_AtLeastOneAttempt ==
    \A c \in DOMAIN calls :
        ( /\ calls[c].pc = "returned"
          /\ calls[c].ret = FALSE
          /\ is_running ) => calls[c].gets >= 1

FilesInPlace == {c \in DOMAIN calls : paths[c].out}

PerCompletionValueExact ==
    last_progress.lock = "download_lock" =>
        /\ last_progress.value = (last_progress.completed * 90) \div seg_total
        /\ last_progress.value <= 90

C22_HundredOnlyAfterVerifiedOutput ==
    /\ InProgress(100) => ffmpeg = "exit0" /\ output_file = "valid"
    /\ ffmpeg \in {"running", "hung"} =>
           \A k \in 1..Len(progress) : progress[k] <= 99
    /\ ( \/ ffmpeg = "exit1"
         \/ ffmpeg = "exit0" /\ output_file # "valid" ) =>
           /\ ~InProgress(100)
           /\ pc # "cs_true"
           /\ "download_complete" \notin {emitted[k] : k \in 1..Len(emitted)}
           /\ pc = "done" => emitted = <<"download_error">>

\* combine_segments returned True after ffmpeg reported frame 25000 while it
\* was running.
C22_Witness ==
    /\ pc = "cs_true"
    /\ Len(segment_files) = 2
    /\ progress = <<0, 0, 25, 50, 99, 100>>

\* ===================================================================
\* Properties of the jobs of one caller (specification SpecJobs)
\* ===================================================================
\* C23: two jobs started by the same caller with the same save directory
\* never write to each other's workspace and never write to the same output
\* path, so the output of a completed job is still the file it wrote.
C23_JobsAreIndependent ==
    /\ \A u, v \in Urls :
           u # v =>
               /\ jobs[v].temp_dir \notin jobs[u].wrote
               /\ ( /\ jobs[u].output_file # NoPath
                    /\ jobs[v].output_file # NoPath ) =>
                      jobs[u].output_file # jobs[v].output_file
    /\ \A u \in Urls :
           jobs[u].pc = "done" =>
               [path |-> jobs[u].output_file, by |-> u] \in saved

====
